---------------------------- MODULE Spec2Model ----------------------------
(***************************************************************************)
(* PRIP, the Protein Residue Interaction Parser: the rule set              *)
(* (prip_parsecriteria.py), the pairwise evaluator and result aggregator   *)
(* (prip_parser.py) and the page handlers that drive them (prip_main.py).  *)
(*                                                                         *)
(* Text is a sequence of one-character strings, so that strip, split,      *)
(* upper, join, float() and str() are computed and not assumed.  A float   *)
(* is kept in tenths.                                                      *)
(***************************************************************************)
EXTENDS Integers, Sequences, FiniteSets, TLC

VARIABLES
    \* ParserCriteria
    num_rules_index, can_add_rule, rule_entry_widgets, cached_rules,
    \* ProteinParser
    protein_file, protein_structure, model_list, chain_list,
    selected_model, selected_chain, parse_results, rule_results, rule_summary,
    \* GuiMaster: the page shown and the state its buttons were created with
    page, add_rule_btn, run_button_state,
    \* saved_rules.json on disk
    rules_file,
    \* how the last run_parser call ended: "True", "False", or the exception
    \* that left it ("none" before any run)
    last_run,
    \* how many times Run was pressed since main() started, up to MaxRuns
    runs,
    \* the number of times main() has been started again
    restarts

criteria_vars == <<num_rules_index, can_add_rule, rule_entry_widgets, cached_rules>>
parser_vars == <<protein_file, protein_structure, model_list, chain_list,
                 selected_model, selected_chain>>
result_vars == <<parse_results, rule_results, rule_summary, last_run, runs>>
gui_vars == <<page, add_rule_btn, run_button_state>>
vars == <<criteria_vars, parser_vars, result_vars, gui_vars, rules_file, restarts>>

-----------------------------------------------------------------------------
(* config.py *)

MAX_RULES == 12
STARTING_RULES == 5

ALA == <<"A", "L", "A">>
ARG == <<"A", "R", "G">>
ASN == <<"A", "S", "N">>
ASP == <<"A", "S", "P">>
CYS == <<"C", "Y", "S">>
GLU == <<"G", "L", "U">>
GLN == <<"G", "L", "N">>
GLY == <<"G", "L", "Y">>
HIS == <<"H", "I", "S">>
ILE == <<"I", "L", "E">>
LEU == <<"L", "E", "U">>
LYS == <<"L", "Y", "S">>
MET == <<"M", "E", "T">>
PHE == <<"P", "H", "E">>
PRO == <<"P", "R", "O">>
SER == <<"S", "E", "R">>
THR == <<"T", "H", "R">>
TRP == <<"T", "R", "P">>
TYR == <<"T", "Y", "R">>
VAL == <<"V", "A", "L">>

ACCEPTED_AMINO_ACIDS ==
    { ALA, <<"A">>, ARG, <<"R">>, ASN, <<"N">>, ASP, <<"D">>, CYS, <<"C">>,
      GLU, <<"E">>, GLN, <<"Q">>, GLY, <<"G">>, HIS, <<"H">>, ILE, <<"I">>,
      LEU, <<"L">>, LYS, <<"K">>, MET, <<"M">>, PHE, <<"F">>, PRO, <<"P">>,
      SER, <<"S">>, THR, <<"T">>, TRP, <<"W">>, TYR, <<"Y">>, VAL, <<"V">> }

-----------------------------------------------------------------------------
(* Python's str methods, on sequences of characters *)

Whitespace == {" ", "\t", "\n"}
LowerCase == <<"a", "b", "c", "d", "e", "f", "g", "h", "i", "j", "k", "l", "m",
               "n", "o", "p", "q", "r", "s", "t", "u", "v", "w", "x", "y", "z">>
UpperCase == <<"A", "B", "C", "D", "E", "F", "G", "H", "I", "J", "K", "L", "M",
               "N", "O", "P", "Q", "R", "S", "T", "U", "V", "W", "X", "Y", "Z">>
Digits == <<"0", "1", "2", "3", "4", "5", "6", "7", "8", "9">>

upper_char(c) ==
    IF \E i \in 1..Len(LowerCase) : LowerCase[i] = c
    THEN UpperCase[CHOOSE i \in 1..Len(LowerCase) : LowerCase[i] = c]
    ELSE c

lower_char(c) ==
    IF \E i \in 1..Len(UpperCase) : UpperCase[i] = c
    THEN LowerCase[CHOOSE i \in 1..Len(UpperCase) : UpperCase[i] = c]
    ELSE c

upper(s) == [i \in 1..Len(s) |-> upper_char(s[i])]
lower(s) == [i \in 1..Len(s) |-> lower_char(s[i])]

RECURSIVE lstrip(_)
lstrip(s) == IF s # <<>> /\ s[1] \in Whitespace THEN lstrip(Tail(s)) ELSE s

RECURSIVE rstrip(_)
rstrip(s) ==
    IF s # <<>> /\ s[Len(s)] \in Whitespace
    THEN rstrip(SubSeq(s, 1, Len(s) - 1))
    ELSE s

strip(s) == rstrip(lstrip(s))

\* s.split(sep=","): the pieces between separators; "" splits into [""]
RECURSIVE split(_, _)
split(s, sep) ==
    IF \A i \in 1..Len(s) : s[i] # sep
    THEN <<s>>
    ELSE LET k == CHOOSE i \in 1..Len(s) :
                     s[i] = sep /\ \A j \in 1..(i - 1) : s[j] # sep
         IN  <<SubSeq(s, 1, k - 1)>> \o split(SubSeq(s, k + 1, Len(s)), sep)

\* sep.join(parts)
RECURSIVE join(_, _)
join(sep, parts) ==
    IF parts = <<>> THEN <<>>
    ELSE IF Len(parts) = 1 THEN parts[1]
    ELSE parts[1] \o sep \o join(sep, Tail(parts))

isdigit_char(c) == \E i \in 1..Len(Digits) : Digits[i] = c
digit_value(c) == (CHOOSE i \in 1..Len(Digits) : Digits[i] = c) - 1

\* str.isdigit(): non-empty and every character a digit
isdigit(s) == s # <<>> /\ \A i \in 1..Len(s) : isdigit_char(s[i])

RECURSIVE int_of_digits(_)
int_of_digits(s) ==
    IF s = <<>> THEN 0
    ELSE 10 * int_of_digits(SubSeq(s, 1, Len(s) - 1)) + digit_value(s[Len(s)])

\* str(n) of an int
RECURSIVE str_of_nat(_)
str_of_nat(n) ==
    IF n < 10 THEN <<Digits[n + 1]>>
    ELSE str_of_nat(n \div 10) \o <<Digits[(n % 10) + 1]>>

str_of_int(n) == IF n < 0 THEN <<"-">> \o str_of_nat(0 - n) ELSE str_of_nat(n)

-----------------------------------------------------------------------------
(* Python floats, in tenths.  Texts with an exponent, an underscore or more *)
(* than one fractional digit are outside the texts the model types.        *)

Float(t) == [kind |-> "float", tenths |-> t]
NaN == [kind |-> "nan"]
Inf(sign) == [kind |-> "inf", sign |-> sign]
\* a distance field that float() refused keeps the entry's text
RawText(s) == [kind |-> "str", text |-> s]

is_number(v) == v.kind \in {"float", "nan", "inf"}

\* a < b on floats: false as soon as either side is nan
float_lt(a, b) ==
    CASE a.kind = "nan" \/ b.kind = "nan" -> FALSE
      [] a.kind = "float" /\ b.kind = "float" -> a.tenths < b.tenths
      [] a.kind = "float" /\ b.kind = "inf" -> b.sign > 0
      [] a.kind = "inf" /\ b.kind = "float" -> a.sign < 0
      [] OTHER -> a.sign < b.sign

\* a <= 0
float_le_zero(a) ==
    CASE a.kind = "nan" -> FALSE
      [] a.kind = "float" -> a.tenths <= 0
      [] OTHER -> a.sign < 0

\* the unsigned body of a float literal: digits, digits.digits, digits., .digits
unsigned_decimal(s) ==
    LET dots == {i \in 1..Len(s) : s[i] = "."}
        whole == IF dots = {} THEN s
                 ELSE SubSeq(s, 1, (CHOOSE i \in dots : TRUE) - 1)
        frac == IF dots = {} THEN <<>>
                ELSE SubSeq(s, (CHOOSE i \in dots : TRUE) + 1, Len(s))
    IN  IF /\ Cardinality(dots) <= 1
           /\ whole \o frac # <<>>
           /\ \A i \in 1..Len(whole) : isdigit_char(whole[i])
           /\ \A i \in 1..Len(frac) : isdigit_char(frac[i])
        THEN [ok |-> TRUE,
              tenths |-> 10 * int_of_digits(whole)
                         + (IF frac = <<>> THEN 0 ELSE digit_value(frac[1]))]
        ELSE [ok |-> FALSE, tenths |-> 0]

\* float(s): [ok |-> TRUE, value |-> v], or ok = FALSE for a ValueError
float_of_str(raw) ==
    LET s == strip(raw)
        signed == s # <<>> /\ s[1] \in {"+", "-"}
        sign == IF signed /\ s[1] = "-" THEN 0 - 1 ELSE 1
        body == IF signed THEN Tail(s) ELSE s
        word == lower(body)
        dec == unsigned_decimal(body)
    IN  IF word = <<"n", "a", "n">> THEN [ok |-> TRUE, value |-> NaN]
        ELSE IF word \in {<<"i", "n", "f">>,
                          <<"i", "n", "f", "i", "n", "i", "t", "y">>}
        THEN [ok |-> TRUE, value |-> Inf(sign)]
        ELSE IF dec.ok THEN [ok |-> TRUE, value |-> Float(sign * dec.tenths)]
        ELSE [ok |-> FALSE, value |-> NaN]

\* str(x) of a float, as Tk shows it when it is inserted into an entry
str_of_float(v) ==
    CASE v.kind = "nan" -> <<"n", "a", "n">>
      [] v.kind = "inf" ->
            IF v.sign < 0 THEN <<"-", "i", "n", "f">> ELSE <<"i", "n", "f">>
      [] OTHER ->
            LET a == IF v.tenths < 0 THEN 0 - v.tenths ELSE v.tenths
            IN  (IF v.tenths < 0 THEN <<"-">> ELSE <<>>)
                \o str_of_nat(a \div 10) \o <<".">> \o str_of_nat(a % 10)

-----------------------------------------------------------------------------
(* Python values that a variable holds beside None *)

None == [none |-> TRUE]
\* a list, as cached_rules and json.load hold it
List(l) == [list |-> l]
\* a JSON document that is not a list
Dict == [dict |-> TRUE]
isinstance_list(v) == "list" \in DOMAIN v

\* bool(v) of an optional list: None and [] are false
truthy(v) == isinstance_list(v) /\ v.list # <<>>

-----------------------------------------------------------------------------
(* json.dump and json.load of a list of rules.  In the document the        *)
(* distance is a number token or a string; names and codes are strings,    *)
(* which json writes and reads back as they are.                           *)

\* float.__repr__, and the constants json writes for nan and the infinities
json_number(v) ==
    CASE v.kind = "nan" -> <<"N", "a", "N">>
      [] v.kind = "inf" ->
            (IF v.sign < 0 THEN <<"-">> ELSE <<>>)
            \o <<"I", "n", "f", "i", "n", "i", "t", "y">>
      [] OTHER -> str_of_float(v)

json_dump_rule(rule) ==
    [rule EXCEPT !.distance =
        IF @.kind = "str" THEN [json |-> "string", text |-> @.text]
        ELSE [json |-> "number", text |-> json_number(@)]]

\* json.dump(self.cached_rules, saving_file): the document written
json_dump(rules) == [list |-> [i \in 1..Len(rules) |-> json_dump_rule(rules[i])]]

\* a number token read: parse_constant for NaN and the infinities, float()
\* for a token with a fraction
json_load_number(text) ==
    IF text = <<"N", "a", "N">> THEN NaN
    ELSE IF text = <<"I", "n", "f", "i", "n", "i", "t", "y">> THEN Inf(1)
    ELSE IF text = <<"-", "I", "n", "f", "i", "n", "i", "t", "y">> THEN Inf(0 - 1)
    ELSE float_of_str(text).value

json_load_rule(rule) ==
    [rule EXCEPT !.distance =
        IF @.json = "string" THEN RawText(@.text) ELSE json_load_number(@.text)]

\* json.load(import_file): a list of rules, or a document that is not a list
json_load(document) ==
    IF "list" \in DOMAIN document
    THEN List([i \in 1..Len(document.list) |-> json_load_rule(document.list[i])])
    ELSE Dict

-----------------------------------------------------------------------------
(* prip_parsecriteria.py *)

RuleWord == <<"R", "u", "l", "e", " ">>

\* one of grp1, grp2: the cached tokens and whether the group passed
cache_group(text) ==
    LET current_group == strip(text)
        split_rule == split(current_group, ",")
        stripped_rule == [i \in 1..Len(split_rule) |-> upper(strip(split_rule[i]))]
    IN  IF current_group = <<>>
        THEN [value |-> <<>>, ok |-> FALSE]
        ELSE [value |-> stripped_rule,
              ok |-> ~ \E i \in 1..Len(stripped_rule) :
                         /\ stripped_rule[i] # <<>>
                         /\ stripped_rule[i] \notin ACCEPTED_AMINO_ACIDS]

\* the distance field: the float, or the entry's own text when float() fails
cache_distance(text) ==
    LET parsed == float_of_str(strip(text))
    IN  IF parsed.ok
        THEN [value |-> parsed.value, ok |-> ~ float_le_zero(parsed.value)]
        ELSE [value |-> RawText(text), ok |-> FALSE]

\* cache_name numbering the placeholder from 0
cache_name_from_zero(text, n) ==
    IF strip(text) = <<>> THEN RuleWord \o str_of_int(n) ELSE strip(text)

\* the name field, n being len(self.cached_rules) when the rule is cached
cache_name(text, n) ==
    IF strip(text) = <<>> THEN RuleWord \o str_of_int(n + 1) ELSE strip(text)

\* one pass of the loop of cache_rules over a row of entry widgets
cache_rule(rule, n) ==
    LET distance == cache_distance(rule.distance)
        grp1 == cache_group(rule.grp1)
        grp2 == cache_group(rule.grp2)
    IN  [name |-> cache_name(rule.name, n),
         distance |-> distance.value,
         grp1 |-> grp1.value,
         grp2 |-> grp2.value,
         parsable |-> IF distance.ok /\ grp1.ok /\ grp2.ok THEN "yes" ELSE "no"]

cache_rules(widgets) ==
    [i \in 1..Len(widgets) |-> cache_rule(widgets[i], i - 1)]

-----------------------------------------------------------------------------
(* Bio.PDB entities as prip_parser.py reads them: a structure is a list of  *)
(* models (id, serial_num), a model a list of chains (id), a chain a list  *)
(* of residues (resname, id = (hetfield, resseq, icode), the CA coordinate *)
(* or NoAtom).                                                             *)

NoAtom == <<>>

\* a key of a Python dict: numbers compare by value (0 == 0.0), never to a str
NumKey(n) == [num |-> n]
StrKey(s) == [str |-> s]

\* characters in code point order, for comparing strings
CharOrder == <<" ">> \o Digits \o UpperCase \o <<"_">> \o LowerCase
char_rank(c) == CHOOSE i \in 1..Len(CharOrder) : CharOrder[i] = c

RECURSIVE text_lt(_, _)
text_lt(a, b) ==
    IF b = <<>> THEN FALSE
    ELSE IF a = <<>> THEN TRUE
    ELSE IF a[1] # b[1] THEN char_rank(a[1]) < char_rank(b[1])
    ELSE text_lt(Tail(a), Tail(b))

\* residue1 > residue2 in place of residue1 < residue2
residue_gt(residue1, residue2) ==
    LET a == residue2.id
        b == residue1.id
    IN  IF a[1] # b[1] THEN text_lt(a[1], b[1])
        ELSE IF a[2] # b[2] THEN a[2] < b[2]
        ELSE text_lt(a[3], b[3])

\* residue1 < residue2: Entity.__lt__ compares the ids, (hetfield, resseq, icode)
residue_lt(residue1, residue2) ==
    LET a == residue1.id
        b == residue2.id
    IN  IF a[1] # b[1] THEN text_lt(a[1], b[1])
        ELSE IF a[2] # b[2] THEN a[2] < b[2]
        ELSE text_lt(a[3], b[3])

\* residue1 != residue2: Entity.__ne__ compares the ids
residue_ne(residue1, residue2) == residue1.id # residue2.id

\* the exact root of the squares the model's coordinates produce
sqrt(n) == CHOOSE r \in 0..n : r * r = n

\* residue1['CA'] - residue2['CA']: the distance between the two atoms
atom_sub(a, b) ==
    Float(10 * sqrt((a[1] - b[1]) * (a[1] - b[1])
                    + (a[2] - b[2]) * (a[2] - b[2])
                    + (a[3] - b[3]) * (a[3] - b[3])))

\* entity[key]: the child with that id, or a KeyError
has_child(children, key) == \E i \in 1..Len(children) : children[i].id = key
get_child(children, key) ==
    children[CHOOSE i \in 1..Len(children) : children[i].id = key]

\* bool(structure): None and a structure without models are false
structure_truthy(structure) == structure # None /\ structure.models # <<>>

-----------------------------------------------------------------------------
(* prip_parser.py: run_parser *)

Residue_1 == <<"R", "e", "s", "i", "d", "u", "e", " ", "1">>
Residue_1_id == <<"R", "e", "s", "i", "d", "u", "e", " ", "1", " ", "i", "d">>
Residue_2 == <<"R", "e", "s", "i", "d", "u", "e", " ", "2">>
Residue_2_id == <<"R", "e", "s", "i", "d", "u", "e", " ", "2", " ", "i", "d">>
Distance == <<"D", "i", "s", "t", "a", "n", "c", "e">>
MatchesHeader == <<"M", "a", "t", "c", "h", "e", "s", ":", "\n">>

\* the marker cells of a row: 'X', and np.nan
X == "X"
np_nan == "nan"

\* pd.DataFrame(rows, columns=columns): the index starts at 0
DataFrame(rows, columns) ==
    [columns |-> columns, index |-> [i \in 1..Len(rows) |-> i - 1], data |-> rows]

\* the index left as the constructor numbers it
index_from_zero(df) == df

\* df.index += 1
index_plus_one(df) == [df EXCEPT !.index = [i \in 1..Len(df.index) |-> df.index[i] + 1]]

\* prepare_rules without the test of the parsable flag
RECURSIVE prepare_rules_unfiltered(_)
prepare_rules_unfiltered(rule_cache) ==
    IF rule_cache = <<>> THEN <<>>
    ELSE LET cache == rule_cache[1]
         IN  <<[name |-> cache.name, distance |-> cache.distance,
                grp1 |-> cache.grp1, grp2 |-> cache.grp2,
                parsable |-> cache.parsable,
                results |-> <<>>, counter |-> 0]>>
             \o prepare_rules_unfiltered(Tail(rule_cache))

\* the rules of rule_cache with parsable == 'yes', each copied with an empty
\* results list and a zero counter
RECURSIVE prepare_rules(_)
prepare_rules(rule_cache) ==
    IF rule_cache = <<>> THEN <<>>
    ELSE LET cache == rule_cache[1]
         IN  (IF cache.parsable = "yes"
              THEN <<[name |-> cache.name, distance |-> cache.distance,
                      grp1 |-> cache.grp1, grp2 |-> cache.grp2,
                      parsable |-> cache.parsable,
                      results |-> <<>>, counter |-> 0]>>
              ELSE <<>>)
             \o prepare_rules(Tail(rule_cache))

\* in_group on groups whose 1-letter codes stand for the residue name that
\* starts with the letter
in_group_by_initial(res, grp) ==
    \E i \in 1..Len(grp) : grp[i] = res \/ (Len(grp[i]) = 1 /\ grp[i][1] = res[1])

in_group(res, grp) == \E i \in 1..Len(grp) : grp[i] = res

\* _matches_rule without its second line: group 1 first, group 2 second only
_matches_rule_one_way(res1, res2, distance, rule) ==
    in_group(res1, rule.grp1) /\ in_group(res2, rule.grp2)
    /\ float_lt(distance, rule.distance)

\* _matches_rule with <= in place of <
_matches_rule_inclusive(res1, res2, distance, rule) ==
    LET within == ~ float_lt(rule.distance, distance) /\ rule.distance.kind # "nan"
    IN  \/ in_group(res1, rule.grp1) /\ in_group(res2, rule.grp2) /\ within
        \/ in_group(res1, rule.grp2) /\ in_group(res2, rule.grp1) /\ within

_matches_rule(res1, res2, distance, rule) ==
    LET grp1 == rule.grp1
        grp2 == rule.grp2
        max_distance == rule.distance
    IN  \/ in_group(res1, grp1) /\ in_group(res2, grp2) /\ float_lt(distance, max_distance)
        \/ in_group(res1, grp2) /\ in_group(res2, grp1) /\ float_lt(distance, max_distance)

\* distance < max_distance is a TypeError when max_distance is a str; the
\* comparison is reached only after both membership tests of a disjunct passed
_matches_rule_raises(res1, res2, distance, rule) ==
    /\ rule.distance.kind = "str"
    /\ \/ in_group(res1, rule.grp1) /\ in_group(res2, rule.grp2)
       \/ in_group(res1, rule.grp2) /\ in_group(res2, rule.grp1)

\* check_rules with a matching line put in front of the rule's results
RECURSIVE check_rules_prepending(_, _, _, _, _, _)
check_rules_prepending(rules, k, line_data, res_1_name, res_2_name, distance) ==
    IF k > Len(rules)
    THEN [rules |-> rules, line_data |-> line_data, error |-> "none"]
    ELSE IF _matches_rule_raises(res_1_name, res_2_name, distance, rules[k])
    THEN [rules |-> rules, line_data |-> line_data, error |-> "TypeError"]
    ELSE IF _matches_rule(res_1_name, res_2_name, distance, rules[k])
    THEN check_rules_prepending(
             [rules EXCEPT ![k].counter = @ + 1,
                           ![k].results = <<SubSeq(line_data, 1, 5)>> \o @],
             k + 1, Append(line_data, X), res_1_name, res_2_name, distance)
    ELSE check_rules_prepending(rules, k + 1, Append(line_data, np_nan),
                                res_1_name, res_2_name, distance)

\* the loop over parsable_rules for one pair, from rule k on
RECURSIVE check_rules(_, _, _, _, _, _)
check_rules(rules, k, line_data, res_1_name, res_2_name, distance) ==
    IF k > Len(rules)
    THEN [rules |-> rules, line_data |-> line_data, error |-> "none"]
    ELSE IF _matches_rule_raises(res_1_name, res_2_name, distance, rules[k])
    THEN [rules |-> rules, line_data |-> line_data, error |-> "TypeError"]
    ELSE IF _matches_rule(res_1_name, res_2_name, distance, rules[k])
    THEN check_rules([rules EXCEPT ![k].counter = @ + 1,
                                   ![k].results = Append(@, SubSeq(line_data, 1, 5))],
                     k + 1, Append(line_data, X), res_1_name, res_2_name, distance)
    ELSE check_rules(rules, k + 1, Append(line_data, np_nan),
                     res_1_name, res_2_name, distance)

\* residue['CA'] raises KeyError when the residue has no CA atom
has_CA(residue) == residue.CA # NoAtom

\* the if of the loops without its residue1 < residue2
pair_selected_unordered(residue1, residue2) == residue_ne(residue1, residue2)

\* whether the body of the two loops goes past the if for this pair
pair_selected(residue1, residue2) ==
    residue_ne(residue1, residue2) /\ residue_lt(residue1, residue2)

\* the KeyError of a missing CA not caught in the loop: it reaches the
\* handler of run_parser
missing_CA_uncaught(acc) == [acc EXCEPT !.error = "KeyError"]

\* try: distance = ... except KeyError: continue; what the pair does to acc
\* when one of its residues has no CA
missing_CA(acc) == acc

\* the body of the two loops for one (residue1, residue2); acc holds
\* parsable_rules, final_result_list and the exception that left the loops
pair_body(acc, residue1, residue2) ==
    IF acc.error # "none" THEN acc
    ELSE IF ~ pair_selected(residue1, residue2) THEN acc
    ELSE IF ~ (has_CA(residue1) /\ has_CA(residue2)) THEN missing_CA(acc)
    ELSE LET distance == atom_sub(residue1.CA, residue2.CA)
             res_1_name == residue1.resname
             res_2_name == residue2.resname
             res_1_id == str_of_int(residue1.id[2])
             res_2_id == str_of_int(residue2.id[2])
             line_data == <<res_1_name, res_1_id, res_2_name, res_2_id, distance>>
             checked == check_rules(acc.parsable_rules, 1, line_data,
                                    res_1_name, res_2_name, distance)
         IN  IF checked.error # "none"
             THEN [acc EXCEPT !.parsable_rules = checked.rules,
                              !.error = checked.error]
             ELSE [parsable_rules |-> checked.rules,
                   final_result_list |->
                       Append(acc.final_result_list, checked.line_data),
                   error |-> "none"]

\* for residue1 in chain: for residue2 in chain: ..., from the idx-th pair on
RECURSIVE pair_loop(_, _, _)
pair_loop(chain, idx, acc) ==
    LET n == Len(chain.residues)
    IN  IF idx > n * n THEN acc
        ELSE pair_loop(chain, idx + 1,
                       pair_body(acc, chain.residues[((idx - 1) \div n) + 1],
                                      chain.residues[((idx - 1) % n) + 1]))

\* summary_lines with the last rule first
RECURSIVE summary_lines_last_first(_)
summary_lines_last_first(rules) ==
    IF rules = <<>> THEN <<>>
    ELSE summary_lines_last_first(Tail(rules))
         \o rules[1].name \o <<":", " ">> \o str_of_int(rules[1].counter) \o <<"\n">>

\* the summary text, rule by rule
RECURSIVE summary_lines(_)
summary_lines(rules) ==
    IF rules = <<>> THEN <<>>
    ELSE rules[1].name \o <<":", " ">> \o str_of_int(rules[1].counter) \o <<"\n">>
         \o summary_lines(Tail(rules))

\* the rules of rule_cache on which the run wrote 'results' and 'counter',
\* had it worked on the dicts of rule_cache themselves
RECURSIVE rule_cache_written(_, _)
rule_cache_written(rule_cache, finished) ==
    IF rule_cache = <<>> THEN <<>>
    ELSE IF rule_cache[1].parsable = "yes"
    THEN <<finished[1]>> \o rule_cache_written(Tail(rule_cache), Tail(finished))
    ELSE <<rule_cache[1]>> \o rule_cache_written(Tail(rule_cache), finished)

\* what the list passed as rule_cache holds after a run that finished the
\* rules `finished`: each rule was copied with cache.copy() before its
\* 'results' and 'counter' were set, and nothing is assigned to the list
rule_cache_after(rule_cache, finished) == rule_cache

\* whether self.protein_structure[self.selected_model][self.selected_chain]
\* finds a chain (a KeyError otherwise)
selection_found(structure, model_key, chain_key) ==
    /\ has_child(structure.models, model_key)
    /\ has_child(get_child(structure.models, model_key).chains, chain_key)

\* the results table assigned before the chain is looked up
run_failed_empty_table(old) ==
    [ret |-> "False", parse_results |-> [columns |-> <<>>, index |-> <<>>, data |-> <<>>],
     rule_results |-> <<>>, rule_summary |-> old.rule_summary]

\* a KeyError or IndexError inside the try block: rule_results was emptied
\* on entry, nothing else was assigned, the handler returns False
run_failed(old) ==
    [ret |-> "False", parse_results |-> old.parse_results,
     rule_results |-> <<>>, rule_summary |-> old.rule_summary]

\* run_parser(rule_cache) on a parser holding old: the value returned ("True",
\* "False", or the exception that leaves the method) and the three result
\* attributes after the call
run_parser(old, structure, model_key, chain_key, rule_cache) ==
    IF ~ structure_truthy(structure)
    THEN [ret |-> "False", parse_results |-> old.parse_results,
          rule_results |-> old.rule_results, rule_summary |-> old.rule_summary]
    ELSE IF ~ selection_found(structure, model_key, chain_key)
    THEN run_failed(old)
    ELSE LET chain == get_child(get_child(structure.models, model_key).chains, chain_key)
             parsable_rules == IF truthy(rule_cache)
                               THEN prepare_rules(rule_cache.list) ELSE <<>>
             df_columns == <<Residue_1, Residue_1_id, Residue_2, Residue_2_id, Distance>>
                           \o [k \in 1..Len(parsable_rules) |-> parsable_rules[k].name]
             done == pair_loop(chain, 1, [parsable_rules |-> parsable_rules,
                                          final_result_list |-> <<>>,
                                          error |-> "none"])
         IN  IF done.error = "KeyError" THEN run_failed(old)
             ELSE IF done.error # "none"
             THEN [run_failed(old) EXCEPT !.ret = done.error]
             ELSE [ret |-> "True",
                   parse_results |->
                       index_plus_one(DataFrame(done.final_result_list, df_columns)),
                   rule_results |->
                       [k \in 1..Len(done.parsable_rules) |->
                           [done.parsable_rules[k] EXCEPT
                               !.results = DataFrame(@, SubSeq(df_columns, 1, 5))]],
                   rule_summary |-> MatchesHeader \o summary_lines(done.parsable_rules)]

-----------------------------------------------------------------------------
(* Bounds and the inputs the model draws *)

\* how many times the application is closed and started again
MaxRestarts == 1
\* the rows of the criteria page the user types into; add_rule's rows stay blank
MaxTypedRows == 1

Point0 == <<0, 0, 0>>
Point1 == <<3, 0, 0>>
Point2 == <<3, 4, 0>>
Point3 == <<0, 4, 0>>

Blank == <<" ">>
ChainA == <<"A">>
Chain1 == <<"1">>

residue(resname, resseq, CA) ==
    [resname |-> resname, id |-> <<Blank, resseq, Blank>>, CA |-> CA]

\* a file without MODEL records: model 0 has serial_num 0.  Chain A is
\* ALA 1, GLY 2, SER 3 with CA-CA distances 3 (1-2), 5 (1-3), 4 (2-3)
ExampleStructure ==
    [models |-> <<[id |-> NumKey(0), serial_num |-> 0, chains |->
        <<[id |-> StrKey(ChainA), residues |->
            <<residue(ALA, 1, Point0), residue(GLY, 2, Point1),
              residue(SER, 3, Point2)>>]>>]>>]

\* a file with one MODEL 1 record (model 0 has serial_num 1) and a chain
\* named 1, whose residues are numbered 2, 1 and whose last one has no CA
NumberedStructure ==
    [models |-> <<[id |-> NumKey(0), serial_num |-> 1, chains |->
        <<[id |-> StrKey(Chain1), residues |->
            <<residue(GLY, 2, Point0), residue(ALA, 1, Point1),
              residue(SER, 3, NoAtom)>>]>>]>>]

\* what the file dialog can return: a file that parses, or one that does not
PdbFiles ==
    { [name |-> "example", structure |-> ExampleStructure],
      [name |-> "numbered", structure |-> NumberedStructure],
      [name |-> "broken", structure |-> None] }

Path(name) == [path |-> name]

entry_row(name, grp1, grp2, distance) ==
    [name |-> name, grp1 |-> grp1, grp2 |-> grp2, distance |-> distance]

blank_row == entry_row(<<>>, <<>>, <<>>, <<>>)

\* the rows typed on the criteria page of the application
TypedRows ==
    { entry_row(<<"R", "1">>, ALA, GLY \o <<",">> \o SER, <<"4", ".", "0">>),
      entry_row(<<>>, <<"a", "l", "a">>, <<",">>, <<"5">>),
      entry_row(<<"R", "1">>, ALA, <<"X", "Y", "Z">>, <<"a", "b", "c">>) }

\* the longest chain drawn residue by residue; ExampleStructure and
\* ShuffledStructure are longer
MaxResidues == 2
\* the rows added with Add rule in the specification of the whole application
MaxAddedRules == 1
\* the presses of Run that are counted
MaxRuns == 2

\* the CA position of the residue at each place of a drawn chain
Points == <<Point0, Point1, Point2, Point3>>
ResNames == {ALA, GLY, SER}

Perms(n) == {p \in [1..n -> 1..n] : \A i, j \in 1..n : i # j => p[i] # p[j]}

\* chains of n residues: any names, any numbering, any residue without its CA
ChainsOfLen(n) ==
    { [k \in 1..n |-> residue(names[k], numbers[k],
                              IF with_CA[k] THEN Points[k] ELSE NoAtom)] :
        names \in [1..n -> ResNames], numbers \in Perms(n),
        with_CA \in [1..n -> BOOLEAN] }

DrawnChains == UNION {ChainsOfLen(n) : n \in 1..MaxResidues}

single_chain_structure(serial_num, chain_id, residues) ==
    [models |-> <<[id |-> NumKey(0), serial_num |-> serial_num, chains |->
        <<[id |-> StrKey(chain_id), residues |-> residues]>>]>>]

DrawnStructures == {single_chain_structure(0, ChainA, c) : c \in DrawnChains}

\* GLY 2, ALA 1, SER 3 (no CA), ALA 4: numbered against the chain order
ShuffledStructure ==
    single_chain_structure(0, ChainA,
        <<residue(GLY, 2, Point0), residue(ALA, 1, Point1),
          residue(SER, 3, NoAtom), residue(ALA, 4, Point2)>>)

FewStructures == {ExampleStructure, NumberedStructure, ShuffledStructure}

\* the texts of a drawn row, field by field
NameTexts == { <<>>, <<" ">>, <<"R", "1">> }
GroupTexts ==
    { ALA,
      GLY \o <<",">> \o SER,
      <<" ", "a", "l", "a", " ", ",", " ", "g", "l", "y", " ">>,
      ALA \o <<",", ",">> \o GLY,
      <<",">>,
      <<>>,
      <<"a">>,
      <<"X", "Y", "Z">> }
DistanceTexts ==
    { <<"4", ".", "0">>, <<"4">>, <<" ", "5", ".", "5", " ">>, <<"3">>, <<"0">>,
      <<"-", "1">>, <<"a", "b", "c">>, <<>>, <<"n", "a", "n">>, <<"i", "n", "f">> }

DrawnRows ==
    { entry_row(name, grp1, grp2, distance) :
        name \in NameTexts, grp1 \in GroupTexts, grp2 \in GroupTexts,
        distance \in DistanceTexts }

\* a second rule, valid, whose threshold is the distance of a pair
SecondRow == entry_row(<<"R", "2">>, <<"g", "l", "y">>, <<"s", "e", "r", ",", "a", "l", "a">>, <<"4">>)
\* a rule with a code that is not accepted; its groups and distance fit pairs
RejectedRow == entry_row(<<"R", "3">>, ALA, GLY \o <<",">> \o <<"X", "Y", "Z">>, <<"6">>)

\* the rows of the criteria page: STARTING_RULES of them, the first two typed
entries(row1, row2) ==
    [i \in 1..STARTING_RULES |-> IF i = 1 THEN row1 ELSE IF i = 2 THEN row2 ELSE blank_row]

FewEntries ==
    { entries(entry_row(<<"R", "1">>, ALA, GLY \o <<",">> \o SER, <<"4", ".", "0">>),
              SecondRow),
      entries(RejectedRow, SecondRow) }

DrawnEntries == {entries(row1, row2) : row1 \in DrawnRows, row2 \in {blank_row, SecondRow}}

-----------------------------------------------------------------------------
(* prip_main.py: the pages and their handlers *)

\* entry_text showing a float without its fraction
entry_text_whole(distance) ==
    IF distance.kind = "str" THEN distance.text
    ELSE IF distance.kind = "float" /\ distance.tenths >= 0
    THEN str_of_nat(distance.tenths \div 10)
    ELSE str_of_float(distance)

\* what rule_distance.insert(0, distance) shows
entry_text(distance) ==
    IF distance.kind = "str" THEN distance.text ELSE str_of_float(distance)

\* initialize_rules: num_rules_index rows, filled from cached_rules where it
\* has a rule for the row
initialize_rules(num, cached) ==
    [i \in 1..num |->
        IF truthy(cached) /\ i <= Len(cached.list)
        THEN entry_row(cached.list[i].name,
                       join(<<",">>, cached.list[i].grp1),
                       join(<<",">>, cached.list[i].grp2),
                       entry_text(cached.list[i].distance))
        ELSE blank_row]

\* goto_mainpage: the Run button is enabled when a file was selected
goto_mainpage(file) ==
    /\ page' = "main"
    /\ add_rule_btn' = "none"
    /\ run_button_state' = IF file = None THEN "disable" ELSE "normal"

\* goto_criteria: the Add rule button takes can_add_rule, the rows are rebuilt
goto_criteria(num, cached) ==
    /\ page' = "criteria"
    /\ add_rule_btn' = can_add_rule'
    /\ run_button_state' = "none"
    /\ rule_entry_widgets' = initialize_rules(num, cached)

\* detect_models_chains: the attributes it sets on a loaded structure
detect_models_chains(structure) ==
    LET models == [i \in 1..Len(structure.models) |-> structure.models[i].serial_num]
        first == get_child(structure.models, NumKey(0))
        chains == [i \in 1..Len(first.chains) |-> first.chains[i].id.str]
    IN  [model_list |-> models,
         chain_list |-> chains,
         selected_model |-> IF models # <<>> THEN NumKey(models[1]) ELSE NumKey(0),
         selected_chain |-> IF chains # <<>> THEN StrKey(chains[1]) ELSE NumKey(0)]

\* update_model, update_chain: a string of digits becomes a float
update_key(new) == IF isdigit(new) THEN NumKey(int_of_digits(new)) ELSE StrKey(new)

\* Select File on the main page, the dialog returning file f
browse_files(f) ==
    /\ page = "main"
    /\ protein_file' = Path(f.name)
    /\ protein_structure' = f.structure
    /\ IF f.structure # None
       THEN LET d == detect_models_chains(f.structure)
            IN  /\ model_list' = d.model_list
                /\ chain_list' = d.chain_list
                /\ selected_model' = d.selected_model
                /\ selected_chain' = d.selected_chain
       ELSE UNCHANGED <<model_list, chain_list, selected_model, selected_chain>>
    /\ goto_mainpage(Path(f.name))
    /\ UNCHANGED <<criteria_vars, result_vars, rules_file, restarts>>

\* the model combobox of the main page: one of the values it lists is picked
select_model(k) ==
    /\ page = "main" /\ protein_file # None
    /\ k \in 1..Len(model_list)
    /\ selected_model' = update_key(str_of_int(model_list[k]))
    /\ UNCHANGED <<criteria_vars, protein_file, protein_structure, model_list,
                   chain_list, selected_chain, result_vars, gui_vars, rules_file,
                   restarts>>

\* the chain combobox of the main page
select_chain(k) ==
    /\ page = "main" /\ protein_file # None
    /\ k \in 1..Len(chain_list)
    /\ selected_chain' = update_key(chain_list[k])
    /\ UNCHANGED <<criteria_vars, protein_file, protein_structure, model_list,
                   chain_list, selected_model, result_vars, gui_vars, rules_file,
                   restarts>>

\* Interaction criteria on the main page
open_criteria ==
    /\ page = "main"
    /\ UNCHANGED <<num_rules_index, can_add_rule, cached_rules>>
    /\ goto_criteria(num_rules_index, cached_rules)
    /\ UNCHANGED <<parser_vars, result_vars, rules_file, restarts>>

\* the user types a rule into row i of the criteria page
type_rule(i, row) ==
    /\ page = "criteria"
    /\ i \in 1..Len(rule_entry_widgets)
    /\ rule_entry_widgets' = [rule_entry_widgets EXCEPT ![i] = row]
    /\ UNCHANGED <<num_rules_index, can_add_rule, cached_rules, parser_vars,
                   result_vars, gui_vars, rules_file, restarts>>

\* Add rule: a new blank row; the button is disabled from MAX_RULES rows on
add_rule ==
    /\ page = "criteria"
    /\ add_rule_btn = "normal"
    /\ rule_entry_widgets' = Append(rule_entry_widgets, blank_row)
    /\ num_rules_index' = num_rules_index + 1
    /\ IF num_rules_index + 1 >= MAX_RULES
       THEN can_add_rule' = "disable" /\ add_rule_btn' = "disable"
       ELSE UNCHANGED <<can_add_rule, add_rule_btn>>
    /\ UNCHANGED <<cached_rules, parser_vars, result_vars, page, run_button_state,
                   rules_file, restarts>>

\* Import: import_rules, then on success the page is rebuilt from the file
on_import_rules ==
    /\ page = "criteria"
    /\ IF rules_file = None
       THEN UNCHANGED <<criteria_vars, gui_vars>>
       ELSE IF ~ isinstance_list(json_load(rules_file))
       THEN /\ cached_rules' = json_load(rules_file)
            /\ UNCHANGED <<num_rules_index, can_add_rule, rule_entry_widgets, gui_vars>>
       ELSE /\ cached_rules' = json_load(rules_file)
            /\ num_rules_index' = Len(json_load(rules_file).list)
            /\ UNCHANGED can_add_rule
            /\ goto_criteria(Len(json_load(rules_file).list), json_load(rules_file))
    /\ UNCHANGED <<parser_vars, result_vars, rules_file, restarts>>

\* Save: save_rules caches the rows and writes them when there are any
on_save_rules ==
    /\ page = "criteria"
    /\ cached_rules' = List(cache_rules(rule_entry_widgets))
    /\ rules_file' = IF cache_rules(rule_entry_widgets) # <<>>
                     THEN json_dump(cache_rules(rule_entry_widgets))
                     ELSE rules_file
    /\ UNCHANGED <<num_rules_index, can_add_rule, rule_entry_widgets, parser_vars,
                   result_vars, gui_vars, restarts>>

\* Back without cache_rules: the cached rules stay as they are
on_back_without_caching ==
    /\ page = "criteria"
    /\ rule_entry_widgets' = <<>>
    /\ goto_mainpage(protein_file)
    /\ UNCHANGED <<num_rules_index, can_add_rule, cached_rules, parser_vars,
                   result_vars, rules_file, restarts>>

\* Back: the rows are cached and dropped, the main page is shown
on_back_from_criteria ==
    /\ page = "criteria"
    /\ cached_rules' = List(cache_rules(rule_entry_widgets))
    /\ rule_entry_widgets' = <<>>
    /\ goto_mainpage(protein_file)
    /\ UNCHANGED <<num_rules_index, can_add_rule, parser_vars, result_vars,
                   rules_file, restarts>>

\* run_and_goto_results on a parser that does not empty rule_results when a
\* run starts: the per-rule tables of the run are added to those stored
run_and_goto_results_accumulating ==
    /\ page = "main"
    /\ run_button_state = "normal"
    /\ LET r == run_parser([parse_results |-> parse_results,
                            rule_results |-> rule_results,
                            rule_summary |-> rule_summary],
                           protein_structure, selected_model, selected_chain,
                           cached_rules)
       IN  /\ parse_results' = r.parse_results
           /\ rule_results' = IF r.ret = "True" THEN rule_results \o r.rule_results
                              ELSE rule_results
           /\ rule_summary' = r.rule_summary
           /\ last_run' = r.ret
           /\ runs' = IF runs < MaxRuns THEN runs + 1 ELSE runs
           /\ IF r.ret = "True"
              THEN page' = "results" /\ run_button_state' = "none"
                   /\ UNCHANGED add_rule_btn
              ELSE UNCHANGED gui_vars
           /\ cached_rules' = IF r.ret = "True" /\ truthy(cached_rules)
                              THEN List(rule_cache_after(cached_rules.list,
                                                         r.rule_results))
                              ELSE cached_rules
    /\ UNCHANGED <<num_rules_index, can_add_rule, rule_entry_widgets, parser_vars,
                   rules_file, restarts>>

\* Run: run_parser on the cached rules; the results page on success
run_and_goto_results ==
    /\ page = "main"
    /\ run_button_state = "normal"
    /\ LET r == run_parser([parse_results |-> parse_results,
                            rule_results |-> rule_results,
                            rule_summary |-> rule_summary],
                           protein_structure, selected_model, selected_chain,
                           cached_rules)
       IN  /\ parse_results' = r.parse_results
           /\ rule_results' = r.rule_results
           /\ rule_summary' = r.rule_summary
           /\ last_run' = r.ret
           /\ runs' = IF runs < MaxRuns THEN runs + 1 ELSE runs
           /\ IF r.ret = "True"
              THEN page' = "results" /\ run_button_state' = "none"
                   /\ UNCHANGED add_rule_btn
              ELSE UNCHANGED gui_vars
           /\ cached_rules' = IF r.ret = "True" /\ truthy(cached_rules)
                              THEN List(rule_cache_after(cached_rules.list,
                                                         r.rule_results))
                              ELSE cached_rules
    /\ UNCHANGED <<num_rules_index, can_add_rule, rule_entry_widgets, parser_vars,
                   rules_file, restarts>>

\* Go back on the results page
go_back ==
    /\ page = "results"
    /\ goto_mainpage(protein_file)
    /\ UNCHANGED <<criteria_vars, parser_vars, result_vars, rules_file, restarts>>

\* main(): what the new ProteinParser and ParserCriteria hold, and the main
\* page drawn without a file
main ==
    [num_rules_index |-> STARTING_RULES, can_add_rule |-> "normal",
     rule_entry_widgets |-> <<>>, cached_rules |-> None,
     protein_file |-> None, protein_structure |-> None,
     model_list |-> <<>>, chain_list |-> <<>>,
     selected_model |-> NumKey(0), selected_chain |-> NumKey(0),
     parse_results |-> None, rule_results |-> <<>>, rule_summary |-> <<>>,
     page |-> "main", add_rule_btn |-> "none", run_button_state |-> "disable"]

\* the window is closed and the application started again; the rules file stays
restart ==
    /\ restarts < MaxRestarts
    /\ restarts' = restarts + 1
    /\ num_rules_index' = main.num_rules_index
    /\ can_add_rule' = main.can_add_rule
    /\ rule_entry_widgets' = main.rule_entry_widgets
    /\ cached_rules' = main.cached_rules
    /\ protein_file' = main.protein_file
    /\ protein_structure' = main.protein_structure
    /\ model_list' = main.model_list
    /\ chain_list' = main.chain_list
    /\ selected_model' = main.selected_model
    /\ selected_chain' = main.selected_chain
    /\ parse_results' = main.parse_results
    /\ rule_results' = main.rule_results
    /\ rule_summary' = main.rule_summary
    /\ page' = main.page
    /\ add_rule_btn' = main.add_rule_btn
    /\ run_button_state' = main.run_button_state
    /\ last_run' = "none"
    /\ runs' = 0
    /\ UNCHANGED rules_file

Init ==
    /\ num_rules_index = main.num_rules_index
    /\ can_add_rule = main.can_add_rule
    /\ rule_entry_widgets = main.rule_entry_widgets
    /\ cached_rules = main.cached_rules
    /\ protein_file = main.protein_file
    /\ protein_structure = main.protein_structure
    /\ model_list = main.model_list
    /\ chain_list = main.chain_list
    /\ selected_model = main.selected_model
    /\ selected_chain = main.selected_chain
    /\ parse_results = main.parse_results
    /\ rule_results = main.rule_results
    /\ rule_summary = main.rule_summary
    /\ page = main.page
    /\ add_rule_btn = main.add_rule_btn
    /\ run_button_state = main.run_button_state
    /\ last_run = "none"
    /\ runs = 0
    /\ rules_file = None
    /\ restarts = 0

\* Add rule, while the page has fewer than STARTING_RULES + MaxAddedRules rows
add_rule_bounded ==
    /\ Len(rule_entry_widgets) < STARTING_RULES + MaxAddedRules
    /\ add_rule

\* the whole application
Next ==
    \/ \E f \in PdbFiles : browse_files(f)
    \/ \E k \in 1..Len(model_list) : select_model(k)
    \/ \E k \in 1..Len(chain_list) : select_chain(k)
    \/ open_criteria
    \/ \E i \in 1..MaxTypedRows, row \in TypedRows : type_rule(i, row)
    \/ add_rule_bounded
    \/ on_import_rules
    \/ on_save_rules
    \/ on_back_from_criteria
    \/ run_and_goto_results
    \/ go_back

Spec == Init /\ [][Next]_vars

-----------------------------------------------------------------------------
(* The rule set over sessions: the criteria page, the rules file, restarts *)

NextRuleSet ==
    \/ open_criteria
    \/ \E i \in 1..MaxTypedRows, row \in TypedRows : type_rule(i, row)
    \/ add_rule
    \/ on_import_rules
    \/ on_save_rules
    \/ on_back_from_criteria
    \/ restart

SpecRuleSet == Init /\ [][NextRuleSet]_vars

-----------------------------------------------------------------------------
(* The validator: the criteria page of a new session with drawn rows typed *)

InitRules ==
    /\ num_rules_index = STARTING_RULES
    /\ can_add_rule = "normal"
    /\ rule_entry_widgets \in DrawnEntries
    /\ cached_rules = None
    /\ protein_file = None
    /\ protein_structure = None
    /\ model_list = <<>>
    /\ chain_list = <<>>
    /\ selected_model = NumKey(0)
    /\ selected_chain = NumKey(0)
    /\ parse_results = None
    /\ rule_results = <<>>
    /\ rule_summary = <<>>
    /\ page = "criteria"
    /\ add_rule_btn = "normal"
    /\ run_button_state = "none"
    /\ last_run = "none"
    /\ runs = 0
    /\ rules_file = None
    /\ restarts = 0

NextRules ==
    \/ on_back_from_criteria
    \/ open_criteria
    \/ on_save_rules
    \/ on_import_rules

SpecRules == InitRules /\ [][NextRules]_vars

-----------------------------------------------------------------------------
(* The evaluation: the main page after a drawn file was loaded and drawn    *)
(* rows were cached with Back                                              *)

EvalInputs ==
    (DrawnStructures \X FewEntries) \cup (FewStructures \X DrawnEntries)

InitEval ==
    \E input \in EvalInputs :
        LET d == detect_models_chains(input[1])
        IN  /\ num_rules_index = STARTING_RULES
            /\ can_add_rule = "normal"
            /\ rule_entry_widgets = <<>>
            /\ cached_rules = List(cache_rules(input[2]))
            /\ protein_file = Path("drawn")
            /\ protein_structure = input[1]
            /\ model_list = d.model_list
            /\ chain_list = d.chain_list
            /\ selected_model = d.selected_model
            /\ selected_chain = d.selected_chain
            /\ parse_results = None
            /\ rule_results = <<>>
            /\ rule_summary = <<>>
            /\ page = "main"
            /\ add_rule_btn = "none"
            /\ run_button_state = "normal"
            /\ last_run = "none"
            /\ runs = 0
            /\ rules_file = None
            /\ restarts = 0

NextEval ==
    \/ run_and_goto_results
    \/ go_back
    \/ \E k \in 1..Len(model_list) : select_model(k)
    \/ \E k \in 1..Len(chain_list) : select_chain(k)

SpecEval == InitEval /\ [][NextEval]_vars

-----------------------------------------------------------------------------
(* The whole application started beside a saved_rules.json that this       *)
(* session did not write                                                   *)

\* a list whose first rule is flagged parsable with a code that is not
\* accepted, and whose second rule is flagged not parsable though it is valid
ForgedFile ==
    [list |->
        <<[name |-> <<"R", "1">>, grp1 |-> <<ALA>>, grp2 |-> <<GLY, <<"X", "Y", "Z">>>>,
           distance |-> [json |-> "number", text |-> <<"6", ".", "0">>],
           parsable |-> "yes"],
          [name |-> <<"R", "2">>, grp1 |-> <<GLY>>, grp2 |-> <<SER, ALA>>,
           distance |-> [json |-> "number", text |-> <<"4", ".", "0">>],
           parsable |-> "no"]>>]

\* the documents found on disk: the forged list, and one that is not a list
ForeignFiles == {ForgedFile, Dict}

InitImport ==
    /\ num_rules_index = main.num_rules_index
    /\ can_add_rule = main.can_add_rule
    /\ rule_entry_widgets = main.rule_entry_widgets
    /\ cached_rules = main.cached_rules
    /\ protein_file = main.protein_file
    /\ protein_structure = main.protein_structure
    /\ model_list = main.model_list
    /\ chain_list = main.chain_list
    /\ selected_model = main.selected_model
    /\ selected_chain = main.selected_chain
    /\ parse_results = main.parse_results
    /\ rule_results = main.rule_results
    /\ rule_summary = main.rule_summary
    /\ page = main.page
    /\ add_rule_btn = main.add_rule_btn
    /\ run_button_state = main.run_button_state
    /\ last_run = "none"
    /\ runs = 0
    /\ rules_file \in ForeignFiles
    /\ restarts = 0

\* the session: a file is selected, the rules are imported, the first row is
\* typed over, the rows are saved and cached, runs are made
NextImport ==
    \/ \E f \in PdbFiles : browse_files(f)
    \/ open_criteria
    \/ \E row \in TypedRows : type_rule(1, row)
    \/ on_import_rules
    \/ on_save_rules
    \/ on_back_from_criteria
    \/ run_and_goto_results
    \/ go_back

SpecImport == InitImport /\ [][NextImport]_vars

-----------------------------------------------------------------------------
(* What the claims read from a state *)

OnResults == page = "results"

\* the residues of the selected chain, in chain order
SelectedResidues ==
    get_child(get_child(protein_structure.models, selected_model).chains,
              selected_chain).residues

Rows == parse_results.data

\* the cached rules marked parsable, in the order of the rule set
ParsableCached == SelectSeq(cached_rules.list, LAMBDA r : r.parsable = "yes")

\* the place in the chain of the residue a row names in columns c, c + 1
PlaceOf(row, c) ==
    CHOOSE p \in 1..Len(SelectedResidues) :
        /\ SelectedResidues[p].resname = row[c]
        /\ str_of_int(SelectedResidues[p].id[2]) = row[c + 1]

Codes(grp) == {grp[i] : i \in 1..Len(grp)}

\* d strictly below a rule's distance
Below(d, max_distance) ==
    CASE max_distance.kind = "float" -> d.tenths < max_distance.tenths
      [] max_distance.kind = "inf" -> max_distance.sign > 0
      [] OTHER -> FALSE

\* the two names of a row lie in the two groups of a rule, one in each
CrossGroups(row, rule) ==
    \/ row[1] \in Codes(rule.grp1) /\ row[3] \in Codes(rule.grp2)
    \/ row[1] \in Codes(rule.grp2) /\ row[3] \in Codes(rule.grp1)

-----------------------------------------------------------------------------
(* C1: a row is marked for a parsable rule, and counted for it, exactly    *)
(* when its two residue names lie one in each group of the rule and its    *)
(* distance is strictly below the rule's distance; a row whose distance    *)
(* equals the rule's distance is neither marked nor counted.               *)
C1_StrictMatch ==
    OnResults =>
        \A k \in 1..Len(ParsableCached) :
            LET rule == ParsableCached[k]
                matching == {r \in 1..Len(Rows) :
                                CrossGroups(Rows[r], rule)
                                /\ Below(Rows[r][5], rule.distance)}
            IN  /\ \A r \in 1..Len(Rows) : (Rows[r][5 + k] = X) <=> (r \in matching)
                /\ \A r \in 1..Len(Rows) :
                       Rows[r][5] = rule.distance => Rows[r][5 + k] # X
                /\ rule_results[k].counter = Cardinality(matching)
                /\ Len(rule_results[k].results.data) = Cardinality(matching)

\* a row whose names fit a rule and whose distance is the rule's distance
C1_Witness ==
    /\ OnResults
    /\ \E k \in 1..Len(ParsableCached), r \in 1..Len(Rows) :
           /\ CrossGroups(Rows[r], ParsableCached[k])
           /\ Rows[r][5] = ParsableCached[k].distance

-----------------------------------------------------------------------------
(* C2: for a selected chain of n residues that all have a CA atom, the     *)
(* comprehensive table has n*(n-1)/2 rows, every pair of distinct residues *)
(* is in exactly one row, and no row names one residue twice.              *)
AllHaveCA == \A p \in 1..Len(SelectedResidues) : SelectedResidues[p].CA # NoAtom

\* the rows about the residues at places p and q, in either order
RowsAbout(p, q) ==
    {r \in 1..Len(Rows) : {PlaceOf(Rows[r], 1), PlaceOf(Rows[r], 3)} = {p, q}}

C2_AllPairsOnce ==
    (OnResults /\ AllHaveCA) =>
        LET n == Len(SelectedResidues)
        IN  /\ 2 * Len(Rows) = n * (n - 1)
            /\ \A p, q \in 1..n : p < q => Cardinality(RowsAbout(p, q)) = 1
            /\ \A r \in 1..Len(Rows) : PlaceOf(Rows[r], 1) # PlaceOf(Rows[r], 3)

C2_Witness ==
    /\ OnResults
    /\ AllHaveCA
    /\ Len(SelectedResidues) = 3
    /\ Len(Rows) = 3

-----------------------------------------------------------------------------
(* C3, as claimed: in every row residue 1 comes before residue 2 in the    *)
(* chain, and the rows follow the enumeration of the chain order, also     *)
(* when the residue numbers do not rise along the chain.                   *)
RowsInLoopOrder ==
    \A r \in 1..(Len(Rows) - 1) :
        \/ PlaceOf(Rows[r], 1) < PlaceOf(Rows[r + 1], 1)
        \/ /\ PlaceOf(Rows[r], 1) = PlaceOf(Rows[r + 1], 1)
           /\ PlaceOf(Rows[r], 3) < PlaceOf(Rows[r + 1], 3)

IdBelow(a, b) ==
    \/ a[1] # b[1] /\ text_lt(a[1], b[1])
    \/ a[1] = b[1] /\ a[2] < b[2]
    \/ a[1] = b[1] /\ a[2] = b[2] /\ text_lt(a[3], b[3])

IdsRise ==
    \A p, q \in 1..Len(SelectedResidues) :
        p < q => IdBelow(SelectedResidues[p].id, SelectedResidues[q].id)

-----------------------------------------------------------------------------
(* C4, as claimed: every cached rule marked parsable has two non-empty     *)
(* groups of accepted codes only and a numeric distance above 0.           *)
ValidRule(rule) ==
    /\ rule.grp1 # <<>>
    /\ rule.grp2 # <<>>
    /\ Codes(rule.grp1) \subseteq ACCEPTED_AMINO_ACIDS
    /\ Codes(rule.grp2) \subseteq ACCEPTED_AMINO_ACIDS
    /\ \/ rule.distance.kind = "float" /\ rule.distance.tenths > 0
       \/ rule.distance.kind = "inf" /\ rule.distance.sign > 0

C4_ParsableRulesValid ==
    isinstance_list(cached_rules) =>
        \A i \in 1..Len(cached_rules.list) :
            cached_rules.list[i].parsable = "yes" => ValidRule(cached_rules.list[i])

-----------------------------------------------------------------------------
(* C5: a run leaves the cached rules as they are, the rules not parsable   *)
(* included; its table has marker columns for the parsable rules only, and *)
(* there is a per-rule table and a summary line for the parsable rules     *)
(* only.                                                                   *)
FiveColumns == <<Residue_1, Residue_1_id, Residue_2, Residue_2_id, Distance>>

LinesOf(text) == Cardinality({i \in 1..Len(text) : text[i] = "\n"})

OnlyParsableRulesShown ==
    /\ parse_results.columns
           = FiveColumns \o [k \in 1..Len(ParsableCached) |-> ParsableCached[k].name]
    /\ \A r \in 1..Len(Rows) : Len(Rows[r]) = 5 + Len(ParsableCached)
    /\ Len(rule_results) = Len(ParsableCached)
    /\ \A k \in 1..Len(rule_results) :
           /\ rule_results[k].name = ParsableCached[k].name
           /\ rule_results[k].grp1 = ParsableCached[k].grp1
           /\ rule_results[k].grp2 = ParsableCached[k].grp2
           /\ rule_results[k].distance = ParsableCached[k].distance
    /\ LinesOf(rule_summary) = 1 + Len(ParsableCached)

C5_InvalidRulesExcluded ==
    [][run_and_goto_results =>
          /\ cached_rules' = cached_rules
          /\ last_run' = "True" => OnlyParsableRulesShown']_vars

\* a rule not parsable, kept in the list, whose groups and distance fit a row
C5_Witness ==
    /\ OnResults
    /\ \E i \in 1..Len(cached_rules.list), r \in 1..Len(Rows) :
           /\ cached_rules.list[i].parsable = "no"
           /\ cached_rules.list[i].distance.kind = "float"
           /\ CrossGroups(Rows[r], cached_rules.list[i])
           /\ Below(Rows[r][5], cached_rules.list[i].distance)

-----------------------------------------------------------------------------
(* C6, as claimed: the rule set never holds more than MAX_RULES rules, and *)
(* with MAX_RULES rules or more the Add rule button is disabled.           *)
C6_AtMostMaxRules ==
    /\ num_rules_index <= MAX_RULES
    /\ isinstance_list(cached_rules) => Len(cached_rules.list) <= MAX_RULES
    /\ (page = "criteria" /\ num_rules_index >= MAX_RULES) => add_rule_btn = "disable"

-----------------------------------------------------------------------------
(* C7: a run whose model or chain is not in the structure returns False    *)
(* and leaves the comprehensive table as it was, and a run does not end    *)
(* otherwise than True unless there is no structure or the selection is    *)
(* not in it.                                                              *)
SelectionUnavailable ==
    /\ structure_truthy(protein_structure)
    /\ ~ selection_found(protein_structure, selected_model, selected_chain)

C7_FailsOnlyOnSelection ==
    [][run_and_goto_results =>
          /\ SelectionUnavailable =>
                 (last_run' = "False" /\ parse_results' = parse_results /\ page' = page)
          /\ last_run' # "True" =>
                 (~ structure_truthy(protein_structure) \/ SelectionUnavailable)]_vars

\* a run that failed on its selection
C7_Witness ==
    /\ last_run = "False"
    /\ SelectionUnavailable
    /\ parse_results = None

-----------------------------------------------------------------------------
(* C8: a run on a chain that is in the structure returns True, and its     *)
(* rows are the pairs of residues that both have a CA atom, each once; a   *)
(* residue without CA is in no row and in no per-rule table.               *)
CAPlaces == {p \in 1..Len(SelectedResidues) : SelectedResidues[p].CA # NoAtom}

RowsAreCAPairs ==
    /\ 2 * Len(Rows) = Cardinality(CAPlaces) * (Cardinality(CAPlaces) - 1)
    /\ \A p, q \in CAPlaces : p < q => Cardinality(RowsAbout(p, q)) = 1
    /\ \A r \in 1..Len(Rows) :
           PlaceOf(Rows[r], 1) \in CAPlaces /\ PlaceOf(Rows[r], 3) \in CAPlaces
    /\ \A k \in 1..Len(rule_results) :
           \A m \in 1..Len(rule_results[k].results.data) :
               \E r \in 1..Len(Rows) :
                   SubSeq(Rows[r], 1, 5) = rule_results[k].results.data[m]

C8_MissingCASkipped ==
    [][run_and_goto_results =>
          ((structure_truthy(protein_structure) /\ ~ SelectionUnavailable) =>
               (last_run' = "True" /\ RowsAreCAPairs'))]_vars

\* a table of a chain in which a residue has no CA and others have
C8_Witness ==
    /\ OnResults
    /\ CAPlaces # 1..Len(SelectedResidues)
    /\ Len(Rows) >= 1

-----------------------------------------------------------------------------
(* C9: whether a row matches a parsable rule is the same with the two      *)
(* groups of the rule exchanged and with the two residues exchanged, and   *)
(* it is what the row's marker shows.                                      *)
SwapGroups(rule) == [rule EXCEPT !.grp1 = rule.grp2, !.grp2 = rule.grp1]

C9_MatchSymmetric ==
    OnResults =>
        \A k \in 1..Len(ParsableCached), r \in 1..Len(Rows) :
            LET row == Rows[r]
                rule == ParsableCached[k]
                marked == row[5 + k] = X
            IN  /\ marked = _matches_rule(row[3], row[1], row[5], rule)
                /\ marked = _matches_rule(row[1], row[3], row[5], SwapGroups(rule))
                /\ marked = _matches_rule(row[3], row[1], row[5], SwapGroups(rule))

\* a marked row whose residue 1 is in group 2 only and residue 2 in group 1
C9_Witness ==
    /\ OnResults
    /\ \E k \in 1..Len(ParsableCached), r \in 1..Len(Rows) :
           /\ Rows[r][5 + k] = X
           /\ Rows[r][1] \notin Codes(ParsableCached[k].grp1)
           /\ Rows[r][1] \in Codes(ParsableCached[k].grp2)
           /\ Rows[r][3] \in Codes(ParsableCached[k].grp1)

-----------------------------------------------------------------------------
(* C10: the comprehensive table has one row per pair of residues with CA   *)
(* atoms, numbered from 1; its columns are the five residue and distance   *)
(* columns and then one column per parsable rule, in the order of the rule *)
(* set; a row holds 'X' in a rule's column when it matches the rule and    *)
(* np.nan when it does not.                                                *)
C10_ComprehensiveTable ==
    OnResults =>
        /\ 2 * Len(Rows) = Cardinality(CAPlaces) * (Cardinality(CAPlaces) - 1)
        /\ parse_results.index = [r \in 1..Len(Rows) |-> r]
        /\ Len(parse_results.columns) = 5 + Len(ParsableCached)
        /\ SubSeq(parse_results.columns, 1, 5) = FiveColumns
        /\ \A k \in 1..Len(ParsableCached) :
               parse_results.columns[5 + k] = ParsableCached[k].name
        /\ \A r \in 1..Len(Rows) :
               /\ Len(Rows[r]) = Len(parse_results.columns)
               /\ \A k \in 1..Len(ParsableCached) :
                      Rows[r][5 + k] =
                          IF /\ CrossGroups(Rows[r], ParsableCached[k])
                             /\ Below(Rows[r][5], ParsableCached[k].distance)
                          THEN X ELSE np_nan

\* two parsable rules; a row that matches neither, a row that matches only
\* the second
C10_Witness ==
    /\ OnResults
    /\ Len(ParsableCached) = 2
    /\ \E r \in 1..Len(Rows) : Rows[r][6] = np_nan /\ Rows[r][7] = np_nan
    /\ \E r \in 1..Len(Rows) : Rows[r][6] = np_nan /\ Rows[r][7] = X

-----------------------------------------------------------------------------
(* C11: the per-rule table of each parsable rule is the rows of the        *)
(* comprehensive table marked for the rule, cut to the five residue and    *)
(* distance columns, in the order they have in the comprehensive table.    *)
MarkedRows(k) ==
    LET marked == SelectSeq(Rows, LAMBDA row : row[5 + k] = X)
    IN  [i \in 1..Len(marked) |-> SubSeq(marked[i], 1, 5)]

C11_PerRuleTable ==
    OnResults =>
        /\ Len(rule_results) = Len(ParsableCached)
        /\ \A k \in 1..Len(rule_results) :
               /\ rule_results[k].name = ParsableCached[k].name
               /\ rule_results[k].results.columns = FiveColumns
               /\ rule_results[k].results.data = MarkedRows(k)

\* a rule with two marked rows that differ and a row that is not marked
C11_Witness ==
    /\ OnResults
    /\ \E k \in 1..Len(rule_results) :
           /\ Len(rule_results[k].results.data) >= 2
           /\ rule_results[k].results.data[1] # rule_results[k].results.data[2]
           /\ Len(rule_results[k].results.data) < Len(Rows)

-----------------------------------------------------------------------------
(* C12: the summary text is the header line 'Matches:' and then one line   *)
(* '<name>: <count>' per parsable rule, in the order of the rule set, the  *)
(* count being the number of rows of the comprehensive table marked for    *)
(* the rule.                                                               *)
MarkedCount(k) == Cardinality({r \in 1..Len(Rows) : Rows[r][5 + k] = X})

SummaryLine(k) ==
    ParsableCached[k].name \o <<":", " ">> \o str_of_int(MarkedCount(k)) \o <<"\n">>

RECURSIVE SummaryFrom(_)
SummaryFrom(k) ==
    IF k > Len(ParsableCached) THEN <<>> ELSE SummaryLine(k) \o SummaryFrom(k + 1)

C12_SummaryText ==
    OnResults => rule_summary = MatchesHeader \o SummaryFrom(1)

\* two parsable rules of different names and different counts, one not zero
C12_Witness ==
    /\ OnResults
    /\ Len(ParsableCached) = 2
    /\ ParsableCached[1].name # ParsableCached[2].name
    /\ MarkedCount(1) # MarkedCount(2)
    /\ MarkedCount(1) > 0

-----------------------------------------------------------------------------
(* C13: when the rows are cached (Back, Save), a row whose name is empty   *)
(* or white space gets the name 'Rule N', N its place in the rows counted  *)
(* from 1, and is marked parsable when its groups are non-empty lists of   *)
(* accepted codes and its distance a number above 0.                       *)
BlankText(text) == \A i \in 1..Len(text) : text[i] \in Whitespace

PlaceholderName(n) == <<"R", "u", "l", "e", " ">> \o str_of_int(n)

BlankNamesReplaced(widgets, cached) ==
    /\ isinstance_list(cached)
    /\ Len(cached.list) = Len(widgets)
    /\ \A i \in 1..Len(widgets) :
           BlankText(widgets[i].name) =>
               /\ cached.list[i].name = PlaceholderName(i)
               /\ ValidRule(cached.list[i]) => cached.list[i].parsable = "yes"

C13_BlankNameReplaced ==
    [][(on_save_rules \/ on_back_from_criteria) =>
           BlankNamesReplaced(rule_entry_widgets, cached_rules')]_vars

\* after Save: the first row has a name of white space, its cached rule is
\* named Rule 1 and is parsable
C13_Witness ==
    /\ page = "criteria"
    /\ isinstance_list(cached_rules)
    /\ rule_entry_widgets # <<>> /\ cached_rules.list # <<>>
    /\ rule_entry_widgets[1].name = <<" ">>
    /\ cached_rules.list[1].name = PlaceholderName(1)
    /\ cached_rules.list[1].parsable = "yes"
    /\ ValidRule(cached_rules.list[1])

-----------------------------------------------------------------------------
(* C14, as claimed: after Select File with a file that fails to load, no   *)
(* structure is held and the Run button is not enabled, whatever was       *)
(* loaded before.                                                          *)
C14_FailedLoadNoRun ==
    [][\A f \in PdbFiles :
           (browse_files(f) /\ f.structure = None) =>
               (protein_structure' = None /\ run_button_state' # "normal")]_vars

-----------------------------------------------------------------------------
(* C15: the results of a run are those of the first run of a new parser on *)
(* the same structure, selection and cached rules, whatever was run        *)
(* before: two runs on the same inputs store the same comprehensive        *)
(* table, per-rule tables and summary text.                                *)
FirstRun ==
    run_parser([parse_results |-> main.parse_results,
                rule_results |-> main.rule_results,
                rule_summary |-> main.rule_summary],
               protein_structure, selected_model, selected_chain, cached_rules)

C15_RerunSame ==
    OnResults =>
        /\ parse_results = FirstRun.parse_results
        /\ rule_results = FirstRun.rule_results
        /\ rule_summary = FirstRun.rule_summary

\* the results page after a second run or a later one, with a rule that
\* counted a match
C15_Witness ==
    /\ OnResults
    /\ runs >= 2
    /\ \E k \in 1..Len(rule_results) : rule_results[k].counter > 0

-----------------------------------------------------------------------------
(* C16: Save writes the cached rules to the file; Import reads them back   *)
(* as the cached rules and fills the rows from them, and caching these     *)
(* rows gives the list of the file again, record by record: name, grp1,    *)
(* grp2, distance and parsable.                                            *)
C16_RoundTrip ==
    [][/\ on_save_rules =>
              (cache_rules(rule_entry_widgets) # <<>> =>
                   (rules_file' # None /\ json_load(rules_file') = cached_rules'))
       /\ (on_import_rules /\ rules_file # None) =>
              /\ cached_rules' = json_load(rules_file)
              /\ Len(rule_entry_widgets') = Len(cached_rules'.list)
              /\ List(cache_rules(rule_entry_widgets')) = cached_rules']_vars

\* after Import: the rows were filled from the file (the first name is the
\* placeholder, which is not a name typed), and the file has a parsable rule
\* with a fractional distance and a rule that is not parsable
C16_Witness ==
    /\ page = "criteria"
    /\ rules_file # None
    /\ cached_rules = json_load(rules_file)
    /\ rule_entry_widgets = initialize_rules(num_rules_index, cached_rules)
    /\ rule_entry_widgets[1].name = PlaceholderName(1)
    /\ cached_rules.list[1].parsable = "yes"
    /\ cached_rules.list[1].distance = Float(55)
    /\ \E i \in 1..Len(cached_rules.list) : cached_rules.list[i].parsable = "no"

-----------------------------------------------------------------------------
(* C17: a run, ended True or False, leaves the cached rule list as it was: *)
(* the same rules in the same order, each with the keys name, grp1, grp2,  *)
(* distance and parsable and their values, and without 'results' and       *)
(* 'counter'.                                                              *)
RuleKeys == {"name", "grp1", "grp2", "distance", "parsable"}

C17_RuleSetUnchanged ==
    [][run_and_goto_results =>
          /\ cached_rules' = cached_rules
          /\ isinstance_list(cached_rules') =>
                 \A i \in 1..Len(cached_rules'.list) :
                     DOMAIN cached_rules'.list[i] = RuleKeys]_vars

\* after a run that counted matches for a rule: the run's copy of the rule
\* has the per-run keys, the cached rule of the same name has not
C17_Witness ==
    /\ OnResults
    /\ \E k \in 1..Len(rule_results), i \in 1..Len(cached_rules.list) :
           /\ rule_results[k].counter > 0
           /\ rule_results[k].name = cached_rules.list[i].name
           /\ cached_rules.list[i].parsable = "yes"
           /\ DOMAIN rule_results[k] = RuleKeys \cup {"results", "counter"}
           /\ DOMAIN cached_rules.list[i] = RuleKeys

-----------------------------------------------------------------------------
(* C18: a parsable rule one of whose groups holds 1-letter codes only      *)
(* marks no row and counts no match in a run, the residue names of the     *)
(* structure being 3-letter codes.                                         *)
OneLetterGroup(grp) == grp # <<>> /\ \A i \in 1..Len(grp) : Len(grp[i]) = 1

C18_OneLetterNeverMatches ==
    OnResults =>
        \A k \in 1..Len(ParsableCached) :
            (OneLetterGroup(ParsableCached[k].grp1)
             \/ OneLetterGroup(ParsableCached[k].grp2)) =>
                /\ \A r \in 1..Len(Rows) : Rows[r][5 + k] = np_nan
                /\ rule_results[k].counter = 0
                /\ rule_results[k].results.data = <<>>

\* a parsable rule with the group A against a group of 3-letter codes, and
\* a row of an ALA and a residue of the other group below the distance
C18_Witness ==
    /\ OnResults
    /\ \E k \in 1..Len(ParsableCached), r \in 1..Len(Rows) :
           /\ ParsableCached[k].grp1 = << <<"A">> >>
           /\ Rows[r][1] = ALA
           /\ Rows[r][3] \in Codes(ParsableCached[k].grp2)
           /\ Below(Rows[r][5], ParsableCached[k].distance)

-----------------------------------------------------------------------------
(* C19, as claimed: a run that returns False leaves parse_results,         *)
(* rule_results and rule_summary as they were before it.                   *)
C19_FailedRunKeepsResults ==
    [][(run_and_goto_results /\ last_run' = "False") =>
           UNCHANGED <<parse_results, rule_results, rule_summary>>]_vars

-----------------------------------------------------------------------------
(* C20: when Run is pressed, the cached rules are None or a list that      *)
(* cache_rules produced from entry rows: filling rows from the list and    *)
(* caching them gives the list again, so every parsable flag is the one    *)
(* the validation assigns and none is a flag read from the file.           *)
CachedByValidation ==
    IF isinstance_list(cached_rules)
    THEN cached_rules =
             List(cache_rules(initialize_rules(Len(cached_rules.list), cached_rules)))
    ELSE cached_rules = None

C20_RunOnValidatedRules ==
    [][run_and_goto_results => CachedByValidation]_vars

\* the results of a run on the rules imported from the forged file: the
\* rule flagged 'yes' in the file is cached as 'no' and has no column, the
\* rule flagged 'no' in the file is cached as 'yes' and has one
C20_Witness ==
    /\ OnResults
    /\ rules_file = ForgedFile
    /\ isinstance_list(cached_rules)
    /\ Len(cached_rules.list) = 2
    /\ cached_rules.list[1].grp2 = <<GLY, <<"X", "Y", "Z">>>>
    /\ cached_rules.list[1].parsable = "no"
    /\ cached_rules.list[2].parsable = "yes"
    /\ Len(parse_results.columns) = 6
    /\ parse_results.columns[6] = <<"R", "2">>

-----------------------------------------------------------------------------
(* C21, as claimed: an Import that fails (no file, or a document that is   *)
(* not a list) leaves cached_rules and num_rules_index as they were.       *)
ImportFails == rules_file = None \/ ~ isinstance_list(json_load(rules_file))

C21_FailedImportKeepsRules ==
    [][(on_import_rules /\ ImportFails) =>
           (cached_rules' = cached_rules /\ num_rules_index' = num_rules_index)]_vars

-----------------------------------------------------------------------------
(* C22, as claimed: while a loaded structure is held, the selected model   *)
(* and chain, and every entry of model_list and chain_list as update_model *)
(* and update_chain store it, are found in the structure.                  *)
C22_OfferedSelectionResolves ==
    structure_truthy(protein_structure) =>
        /\ selection_found(protein_structure, selected_model, selected_chain)
        /\ \A k \in 1..Len(model_list) :
               has_child(protein_structure.models,
                         update_key(str_of_int(model_list[k])))
        /\ \A k \in 1..Len(chain_list) :
               has_child(get_child(protein_structure.models, NumKey(0)).chains,
                         update_key(chain_list[k]))

=============================================================================
